---- MODULE Spec2Model ----
(***************************************************************************)
(* A model of the two reusable mechanisms of setup.py:                     *)
(*   - Config / DeferredValueFactory: the lazy configuration holder        *)
(*     (Config.__getattribute__, Config.set, deferred_user_input,          *)
(*     get_user_input, create_user_config);                                *)
(*   - find_latest_github_tag: the walk down the "target" chain of the     *)
(*     GraphQL answer.                                                     *)
(* Python objects are records tagged with their type.                      *)
(***************************************************************************)
EXTENDS Integers, Sequences, FiniteSets, TLC

\* ------------------------------------------------------------------ bounds
\* A producer is invoked at most MaxCalls times per registration.
MaxCalls == 2
\* At most MaxLines lines are typed at the prompts of one call.
MaxLines == 2
\* A tag reference reaches its commit through at most MaxDepth "target"s.
MaxDepth == 3
\* At most MaxInstalls installer calls are made in a run.
MaxInstalls == 3
\* A payload lists at most MaxErrors errors, an error at most MaxLocations
\* locations.
MaxErrors == 2
MaxLocations == 2

\* ----------------------------------------------------------- Python values
PyInt(n) == [type |-> "int", n |-> n]
PyStr(s) == [type |-> "str", s |-> s]
PyBool(b) == [type |-> "bool", b |-> b]
PyNone == [type |-> "NoneType"]
\* NO_DEFAULT = object(), the sentinel of get_user_input
NO_DEFAULT == [type |-> "object", id |-> "NO_DEFAULT"]
\* class DeferredValueFactory: a wrapper around a zero-argument function
DeferredValueFactory(func) == [type |-> "DeferredValueFactory", func |-> func]
\* isinstance(value, DeferredValueFactory)
IsDeferred(value) == value.type = "DeferredValueFactory"

\* The attribute names a client of Config uses, in declaration order.
FieldNames == <<"a", "b", "c">>
Keys == {FieldNames[i] : i \in 1..Len(FieldNames)}
IndexOf(k) == CHOOSE i \in 1..Len(FieldNames) : FieldNames[i] = k
\* The concrete values a client stores or a producer returns.
Values == {PyInt(1), PyInt(2)}

\* A producer: a function that reads the fields `reads` of the config, in
\* that order, and then returns or raises (the CONDA_CMD pattern).
Func(reads) == [name |-> "func", reads |-> reads]
\* The producers a client may register for key k: they read fields declared
\* before k (a cyclic dependency is a programmer error and never returns).
Earlier(k) == {FieldNames[i] : i \in 1..(IndexOf(k) - 1)}
FuncsFor(k) ==
    {Func(<<>>)} \cup {Func(<<d>>) : d \in Earlier(k)}
        \cup {Func(<<d, e>>) : d \in Earlier(k), e \in Earlier(k)}

\* What one invocation of a producer does once it has read its fields.
Return(v) == [status |-> "return", value |-> v]
Raise(e) == [status |-> "raise", exc |-> e]
Outcomes == {Return(v) : v \in Values} \cup {Raise("Exception")}

\* -------------------------------------------------- converters and queries
\* class TokenInvalidError(ValueError); `except ValueError` catches both.
IsValueError(exc) == exc \in {"ValueError", "TokenInvalidError"}

\* The lines a user types at a prompt.
Texts == {"", "abc", " Y ", "0", "2", "3"}
\* The decimal literals among them, as int() reads them.
IntLiteral == [s \in {"0", "2", "3"} |-> CASE s = "0" -> 0 [] s = "2" -> 2 [] s = "3" -> 3]
\* str.strip().lower() on the strings of the model
StripLower(s) == IF s = " Y " THEN "y" ELSE s

\* int(value): an int is returned as it is, a string is parsed
py_int(value) ==
    IF value.type = "int" THEN Return(value)
    ELSE IF value.type = "str" /\ value.s \in DOMAIN IntLiteral
    THEN Return(PyInt(IntLiteral[value.s]))
    ELSE Raise("ValueError")

\* Mutant of convert_number_threads: the number is clamped to the threads
\* available instead of being refused.
convert_number_threads_clamp(n_total_threads, n_threads_str) ==
    LET n_threads == py_int(n_threads_str)
    IN  IF n_threads.status = "raise" THEN n_threads
        ELSE IF n_threads.value.n < 1 THEN Return(PyInt(1))
        ELSE IF n_threads.value.n > n_total_threads
        THEN Return(PyInt(n_total_threads))
        ELSE n_threads

\* convert_number_threads(n_total_threads, n_threads_str)
convert_number_threads(n_total_threads, n_threads_str) ==
    LET n_threads == py_int(n_threads_str)
    IN  IF n_threads.status = "raise" THEN n_threads
        ELSE IF ~(0 < n_threads.value.n /\ n_threads.value.n <= n_total_threads)
        THEN Raise("ValueError")
        ELSE n_threads

\* yes_no_to_bool(answer)
yes_no_to_bool(answer) ==
    Return(PyBool(StripLower(answer.s) \in {"y", "yes", "1"}))

\* What the GitHub endpoint answers to one request: an HTTP status and, with
\* status 200, the JSON body.
HttpOk(body) == [code |-> 200, body |-> body]
HttpError(code) == [code |-> code]
SomeError == [message |-> "Field 'x' doesn't exist", locations |-> <<[line |-> 2, column |-> 3]>>]
\* An error of the payload that lists no locations ("locations" is optional
\* in a GraphQL error).
RateLimited == [type |-> "RATE_LIMITED", message |-> "API rate limit exceeded"]
\* The answers to the test query of validate_github_token.
TestResponses ==
    {HttpOk([data |-> [repository |-> [name |-> "root"]]]),
     HttpOk([errors |-> <<SomeError>>]),
     HttpOk([errors |-> <<RateLimited>>]),
     HttpError(401), HttpError(500)}

\* The tokens a caller passes.
Tokens == {"abc", "ghp_1"}
\* The errors of a payload: a message and a list of locations, or a message
\* and a type only.
Positions == {[line |-> 2, column |-> 3], [line |-> 4, column |-> 1]}
Messages == {"Field 'x' doesn't exist", "Parse error"}
ErrorObjects ==
    {[message |-> t, locations |-> l] :
        t \in Messages, l \in UNION {[1..n -> Positions] : n \in 0..MaxLocations}}
      \cup {RateLimited}
\* The HTTP status codes of a failed request.
ErrorCodes == {400, 401, 403, 404, 500, 502}
\* The answers of the endpoint to a query: data, a payload with an errors
\* array, a failed request.
QueryResponses ==
    {HttpOk([data |-> [repository |-> [name |-> "root"]]])}
      \cup {HttpOk([errors |-> e]) :
                e \in UNION {[1..n -> ErrorObjects] : n \in 0..MaxErrors}}
      \cup {HttpError(c) : c \in ErrorCodes}

\* The element of a one-element set: The({e(x) : x \in {v}}) is e(v), with v
\* evaluated once.
The(S) == CHOOSE x \in S : TRUE

\* A text built from parts is the sequence of its parts.
\* sep.join(parts)
RECURSIVE Join(_, _)
Join(sep, parts) ==
    IF parts = <<>> THEN <<>>
    ELSE IF Len(parts) = 1 THEN parts[1]
    ELSE parts[1] \o <<sep>> \o Join(sep, Tail(parts))
\* f'(line {p["line"]}, column {p["column"]})'
LocationString(p) ==
    "(line " \o ToString(p.line) \o ", column " \o ToString(p.column) \o ")"
\* f'{error["message"]} on {", ".join(locations)}'
ErrorLine(error) ==
    <<error.message, " on ">>
        \o Join(", ", [j \in 1..Len(error.locations) |->
                          <<LocationString(error.locations[j])>>])
\* graphql_errors_to_string(errors): error["locations"] of an error that has
\* no such key raises KeyError.
graphql_errors_to_string(errors) ==
    IF \E i \in 1..Len(errors) : "locations" \notin DOMAIN errors[i]
    THEN Raise("KeyError")
    ELSE Return(Join("\n", [i \in 1..Len(errors) |-> ErrorLine(errors[i])]))

\* raise ValueError(message); raise of the HTTPError urlopen raised
ValueError(message) ==
    [status |-> "raise", exc |-> "ValueError", message |-> message]
HTTPError(code) == [status |-> "raise", exc |-> "HTTPError", code |-> code]

\* Mutant of execute_github_graphql_query: every 4xx answer is taken for a
\* rejected token.
execute_github_graphql_query_4xx(token, response) ==
    IF response.code # 200
    THEN IF response.code \in 400..499 THEN Raise("TokenInvalidError")
         ELSE HTTPError(response.code)
    ELSE IF "errors" \in DOMAIN response.body
    THEN The({IF m.status = "raise" THEN m ELSE ValueError(m.value) :
                 m \in {graphql_errors_to_string(response.body.errors)}})
    ELSE Return(response.body)

\* execute_github_graphql_query(token, query), given the endpoint's answer
execute_github_graphql_query(token, response) ==
    IF response.code # 200
    THEN IF response.code = 401 THEN Raise("TokenInvalidError")
         ELSE HTTPError(response.code)
    ELSE IF "errors" \in DOMAIN response.body
    THEN The({IF m.status = "raise" THEN m ELSE ValueError(m.value) :
                 m \in {graphql_errors_to_string(response.body.errors)}})
    ELSE Return(response.body)

\* Mutant of validate_github_token: the token is returned without the test
\* query.
validate_github_token_unchecked(token, response) == Return(token)

\* validate_github_token(token)
validate_github_token(token, response) ==
    The({IF r.status = "raise" THEN r ELSE Return(token) :
            r \in {execute_github_graphql_query(token, response)}})

\* The converters create_user_config passes to deferred_user_input.
Converter(name) == [type |-> "function", name |-> name]
ThreadsConverter(total) ==
    [type |-> "function", name |-> "convert_number_threads", total |-> total]
\* converter(value), where the line was typed with the endpoint answering
\* `response` to a request made while it is converted
Convert(converter, value, response) ==
    CASE converter.name = "int" -> py_int(value)
      [] converter.name = "strip_lower" -> Return(PyStr(StripLower(value.s)))
      [] converter.name = "yes_no_to_bool" -> yes_no_to_bool(value)
      [] converter.name = "convert_number_threads" ->
            convert_number_threads(converter.total, value)
      [] converter.name = "validate_github_token" ->
            validate_github_token(value, response)

\* -------------------------------------------------------- get_user_input
\* Mutant of Iteration: an empty line is taken as the value when there is no
\* default.
Iteration_accept_empty(default, converter, entry) ==
    LET value == IF default # NO_DEFAULT /\ entry.text = ""
                 THEN default ELSE PyStr(entry.text)
    IN  IF converter = PyNone THEN Return(value)
        ELSE The({IF c.status = "return" THEN c
                  ELSE IF IsValueError(c.exc)
                  THEN [status |-> "continue", log |-> "Invalid value! Try again."]
                  ELSE c :
                      c \in {Convert(converter, value, entry.http)}})

\* Mutant of Iteration: the converter is called outside any try block.
Iteration_no_try(default, converter, entry) ==
    IF default = NO_DEFAULT /\ entry.text = ""
    THEN [status |-> "continue", log |-> "A value is required! Try again."]
    ELSE LET value == IF default # NO_DEFAULT /\ entry.text = ""
                      THEN default ELSE PyStr(entry.text)
         IN  IF converter = PyNone THEN Return(value)
             ELSE Convert(converter, value, entry.http)

\* One pass of the `while True` body of get_user_input, `entry.text` being
\* the line input() returns: the value is returned, or the loop continues
\* after logging an error, or an exception leaves the function.
Continue(message) == [status |-> "continue", log |-> message]
Iteration(default, converter, entry) ==
    IF default = NO_DEFAULT /\ entry.text = ""
    THEN Continue("A value is required! Try again.")
    ELSE LET value == IF default # NO_DEFAULT /\ entry.text = ""
                      THEN default ELSE PyStr(entry.text)
         IN  IF converter = PyNone THEN Return(value)
             ELSE The({IF c.status = "return" THEN c
                       ELSE IF IsValueError(c.exc)
                       THEN Continue("Invalid value! Try again.")
                       ELSE c :
                           c \in {Convert(converter, value, entry.http)}})

\* The (default, converter) pairs get_user_input is called with: those of
\* create_user_config, and each default without a converter.
NoRequest == [code |-> 0]
Defaults == {NO_DEFAULT, PyStr("sci"), PyInt(2)}
Calls ==
    {<<d, PyNone>> : d \in Defaults}
        \cup {<<PyInt(2), ThreadsConverter(2)>>,
              <<PyStr("sci"), Converter("strip_lower")>>,
              <<PyInt(2), Converter("int")>>,
              <<NO_DEFAULT, Converter("validate_github_token")>>,
              <<PyStr("y"), Converter("yes_no_to_bool")>>}
\* What may be typed at one prompt of a call, with the endpoint's answer when
\* the converter sends a request for the line.
Entries(d, c) ==
    IF c # PyNone /\ c.name = "validate_github_token"
    THEN {[text |-> "", http |-> NoRequest]}
            \cup {[text |-> t, http |-> h] : t \in {"abc"}, h \in TestResponses}
    ELSE {[text |-> t, http |-> NoRequest] : t \in Texts}
SeqsUpTo(S, n) == UNION {[1..m -> S] : m \in 0..n}

\* ------------------------------------------------- find_latest_github_tag
\* class GitTag(NamedTuple)
GitTag(name, tarball_url) == [name |-> name, tarball_url |-> tarball_url]

\* The JSON objects of an answer to the tag query.  A commit selected by
\* `... on Commit {tarballUrl}`; under a Tag the selection has no __typename.
Commit(url) == [__typename |-> "Commit", tarballUrl |-> url]
InnerCommit(url) == [tarballUrl |-> url]
Tag(name, target) == [__typename |-> "Tag", name |-> name, target |-> target]
\* An object none of whose fields were selected (a target that is neither
\* Tag nor Commit where one was asked for).
EmptyObject == << >>
\* The object a reference points at: depth 1 is a commit (a lightweight tag),
\* depth d > 1 a tag object pointing at the object of depth d - 1, which ends
\* in `bottom`.
RECURSIVE Chain(_, _)
Chain(depth, bottom) ==
    IF depth <= 1 THEN bottom ELSE Tag("annotated", Chain(depth - 1, bottom))
Node(name, target) == [name |-> name, target |-> target]
Edge(node) == [node |-> node]
RefsBody(edges) == [data |-> [repository |-> [refs |-> [edges |-> edges]]]]

TagNames == {"v6-20-00", "v6-22-00"}
Urls == {"https://codeload/1", "https://codeload/2"}
Bottom(depth, url) == IF depth = 1 THEN Commit(url) ELSE InnerCommit(url)
\* The reference nodes the endpoint may return: a chain ending in a commit,
\* or in an object without tarballUrl.
GoodNodes ==
    {Node(n, Chain(d, Bottom(d, u))) : n \in TagNames, d \in 1..MaxDepth, u \in Urls}
BadNodes ==
    {Node(n, Chain(d, EmptyObject)) : n \in TagNames, d \in 1..MaxDepth}
\* The answers of the endpoint to the tag query: one edge (`first: 1`), none
\* (no tags), more than one, a payload with errors, an HTTP failure.
TagReplies ==
    {HttpOk(RefsBody(<<Edge(x)>>)) : x \in GoodNodes \cup BadNodes}
        \cup {HttpOk(RefsBody(<<>>))}
        \cup {HttpOk(RefsBody(<<Edge(x), Edge(x)>>)) : x \in GoodNodes}
        \cup {HttpOk([errors |-> <<SomeError>>]), HttpError(401), HttpError(500)}

\* The tag names of a repository, in ascending alphabetical (code point)
\* order: "1" sorts before "9", so v10 and v11 sort before v9.
Alphabetical == <<"v10.7.3", "v11.2.0", "v9.6.4">>
RefNames == {Alphabetical[i] : i \in 1..Len(Alphabetical)}
Rank(name) == CHOOSE i \in 1..Len(Alphabetical) : Alphabetical[i] = name
\* A tag reference of a repository: its name, when it was created (a later
\* tag has a larger number) and the object it points at.
Ref(name, created, depth) ==
    [name |-> name, created |-> created,
     target |-> Chain(depth, Bottom(depth, "https://codeload/" \o name))]
\* The repositories: any set of tag references with distinct names, created
\* at distinct times, lightweight or annotated; the empty set has no tags.
Created == 1..Len(Alphabetical)
Repositories ==
    {repo \in SUBSET {Ref(n, c, d) : n \in RefNames, c \in Created, d \in {1, 2}} :
        \A x \in repo, y \in repo :
            (x.name = y.name \/ x.created = y.created) => x = y}

\* orderBy: {field: ALPHABETICAL, direction: DESC} of the query
OrderBy == [field |-> "ALPHABETICAL", direction |-> "DESC"]
\* first: 1 of the query
First == 1
\* What the endpoint sorts references by, for the two values of RefOrderField.
SortKey(ref, field) ==
    IF field = "ALPHABETICAL" THEN Rank(ref.name) ELSE ref.created
\* The references of repo in the order asked for.
RECURSIVE Ordered(_, _)
Ordered(repo, orderBy) ==
    IF repo = {} THEN <<>>
    ELSE LET head == CHOOSE x \in repo : \A y \in repo :
                        IF orderBy.direction = "DESC"
                        THEN SortKey(y, orderBy.field) <= SortKey(x, orderBy.field)
                        ELSE SortKey(x, orderBy.field) <= SortKey(y, orderBy.field)
         IN  <<head>> \o Ordered(repo \ {head}, orderBy)
\* refs(refPrefix: "refs/tags/", first: ..., orderBy: ...) {edges {node ...}}
Refs(repo, first, orderBy) ==
    LET all == Ordered(repo, orderBy)
        n == IF Len(all) < first THEN Len(all) ELSE first
    IN  [i \in 1..n |-> Edge(Node(all[i].name, all[i].target))]
\* The endpoint's answer to the tag query for a repository.
TagQueryReply(repo) == HttpOk(RefsBody(Refs(repo, First, OrderBy)))

\* Mutant of UnpackSingle: the first edge is taken, however many there are.
UnpackSingle_first(edges) ==
    IF edges = <<>> THEN Raise("IndexError") ELSE Return(edges[1])

\* (edge,) = edges: unpacking a list that does not hold exactly one element
\* raises ValueError.
UnpackSingle(edges) ==
    IF Len(edges) # 1 THEN Raise("ValueError") ELSE Return(edges[1])

\* Mutant of LoopCondition: only the reference node's own target is followed.
LoopCondition_once(o) == "target" \in DOMAIN o /\ "__typename" \notin DOMAIN o

\* while "target" in obj
LoopCondition(o) == "target" \in DOMAIN o

VARIABLES
    token,      \* the token argument of the call under way
    repo,       \* the tag references of the repository queried, when known
    reply,      \* find_latest_github_tag: the endpoint's answer to the query
    pc,         \* find_latest_github_tag: the statement reached
    obj,        \* find_latest_github_tag: obj
    tag,        \* find_latest_github_tag: tag
    ret         \* find_latest_github_tag: the GitTag returned / the exception

tagVars == <<token, repo, reply, pc, obj, tag, ret>>

VARIABLES
    default,    \* get_user_input: the default argument
    converter,  \* get_user_input: the converter argument
    stdin,      \* the lines typed, until end of input
    pos,        \* the number of lines input() has returned
    result,     \* running, or how the call ended
    nlog        \* the number of error lines logged

uiVars == <<default, converter, stdin, pos, result, nlog>>

VARIABLES
    attrs,      \* the Config instance's __dict__: attribute name -> object
    nread,      \* per key: whether it was read (__getattribute__) since assigned
    invoked,    \* per key: calls of its DeferredValueFactory since assigned
    succeeded,  \* per key: those calls that returned
    prompts,    \* per key: input() calls made for it (prompts shown)
    last        \* the last operation of the client and how it ended

cfgVars == <<attrs, nread, invoked, succeeded, prompts, last>>

VARIABLES
    main        \* __main__: the statement reached and whether it still runs

VARIABLES
    stack,      \* the installer wrappers under way, the innermost last
    _depth,     \* the global _depth
    logs,       \* the lines logged by the wrappers, in order
    calls,      \* history: one record per wrapper call, in call order
    ended       \* an exception has left the outermost wrapper

instVars == <<stack, _depth, logs, calls, ended>>

vars == <<tagVars, uiVars, cfgVars, main, instVars>>

\* ------------------------------------------------------------------ Config
\* The state a call works on, threaded through the nested calls.
\* `lines` is what the user types while the call runs.
CallState(lines) ==
    [attrs |-> attrs, nread |-> nread, invoked |-> invoked,
     succeeded |-> succeeded, prompts |-> prompts,
     seen |-> [k \in DOMAIN invoked |-> <<>>], stdin |-> lines]

\* setattr(self, item, value) on the instance __dict__
setattr(d, item, value) ==
    [x \in DOMAIN d \cup {item} |-> IF x = item THEN value ELSE d[x]]

\* Mutant of object_getattribute: a missing attribute reads as None.
object_getattribute_none(d, item) ==
    IF item \in DOMAIN d THEN Return(d[item]) ELSE Return(PyNone)

\* object.__getattribute__(self, item): the plain attribute lookup
object_getattribute(d, item) ==
    IF item \in DOMAIN d THEN Return(d[item]) ELSE Raise("AttributeError")

\* Mutant of Memoize: the value the producer returned is not stored.
Memoize_skip(st, item, value) == st

\* setattr(self, item, value) of __getattribute__: the value is memoized
Memoize(st, item, value) == [st EXCEPT !.attrs = setattr(@, item, value)]

RECURSIVE getattribute(_, _, _)
RECURSIVE ReadFields(_, _, _, _)
RECURSIVE ReadFields_raw(_, _, _, _)

\* get_user_input(prompt, default, converter) with `lines` left to type:
\* how it ends, and the number of input() calls it made.
RECURSIVE get_user_input(_, _, _)
get_user_input(dflt, conv, lines) ==
    IF lines = <<>>
    THEN [status |-> "raise", exc |-> "EOFError", used |-> 0, prompted |-> 1]
    ELSE The({IF r.status = "continue"
              THEN [get_user_input(dflt, conv, Tail(lines))
                        EXCEPT !.used = @ + 1, !.prompted = @ + 1]
              ELSE IF r.status = "return"
              THEN [status |-> "return", value |-> r.value,
                    used |-> 1, prompted |-> 1]
              ELSE [status |-> "raise", exc |-> r.exc,
                    used |-> 1, prompted |-> 1] :
                  r \in {Iteration(dflt, conv, Head(lines))}})

\* Mutant of deferred_user_input: the value is taken when the field is
\* declared (the default, or a line typed at once) instead of a deferred.
deferred_user_input_eager(dflt, conv) ==
    IF dflt = NO_DEFAULT THEN PyStr("abc") ELSE dflt

\* deferred_user_input(prompt, default, converter): the deferred closure
\* user_input, which calls get_user_input(prompt, default, converter)
deferred_user_input(dflt, conv) ==
    DeferredValueFactory(
        [name |-> "user_input", reads |-> <<>>,
         default |-> dflt, converter |-> conv])

\* lambda s: convert_number_threads(config.N_MAX_SYSTEM_THREADS, s)
ThreadsLambda == Converter("lambda_convert_number_threads")
\* The converter a closure calls: the lambda reads the config when called.
BoundConverter(d, conv) ==
    IF conv = ThreadsLambda
    THEN ThreadsConverter(d["N_MAX_SYSTEM_THREADS"].n)
    ELSE conv

\* user_input(): return get_user_input(prompt, default, converter)
user_input(st, item, func) ==
    The({LET st1 == [st EXCEPT
                        !.stdin = SubSeq(@, r.used + 1, Len(@)),
                        !.prompts[item] = @ + r.prompted,
                        !.nread = IF func.converter = ThreadsLambda /\ r.used > 0
                                  THEN [@ EXCEPT !["N_MAX_SYSTEM_THREADS"] = TRUE]
                                  ELSE @]
         IN  IF r.status = "raise"
             THEN [status |-> "raise", exc |-> r.exc, st |-> st1]
             ELSE [status |-> "return", value |-> r.value,
                   st |-> [st1 EXCEPT !.succeeded[item] = @ + 1]] :
            r \in {get_user_input(func.default,
                                  BoundConverter(st.attrs, func.converter),
                                  st.stdin)}})

\* What get_conda(virtualenv_name) returns: the conda command bound to the
\* virtualenv.
CondaShim(virtualenv_name) == [type |-> "BoundEnvCommand", env |-> virtualenv_name]
\* The return statement of a producer, `outcome` being what the environment
\* lets its last call do.  CONDA_CMD returns get_conda(<the field it read>)
\* and None on FileNotFoundError; any other producer ends as the outcome.
FuncResult(func, seen, outcome) ==
    IF func.name = "CONDA_CMD"
    THEN IF outcome.status = "return" THEN Return(CondaShim(seen[1]))
         ELSE IF outcome.exc = "FileNotFoundError" THEN Return(PyNone)
         ELSE outcome
    ELSE outcome

\* Mutant of DeferredCall: an exception of the producer is swallowed and
\* None returned in its place.
DeferredCall_swallow(st, item, factory, env) ==
    The({IF r.status = "raise" \/ env[item].status = "raise"
         THEN [status |-> "return", value |-> PyNone, st |-> r.st]
         ELSE [status |-> "return", value |-> env[item].value,
               st |-> [r.st EXCEPT !.succeeded[item] = @ + 1]] :
            r \in {ReadFields([st EXCEPT !.invoked[item] = @ + 1], item,
                              factory.func.reads, env)}})

\* Mutant of DeferredCall: when the producer raises, the values memoized
\* while it ran are dropped.
DeferredCall_rollback(st, item, factory, env) ==
    IF factory.func.name = "user_input"
    THEN user_input([st EXCEPT !.invoked[item] = @ + 1], item, factory.func)
    ELSE The({IF r.status = "raise" THEN r
              ELSE LET out == FuncResult(factory.func, r.st.seen[item], env[item])
                   IN  IF out.status = "raise"
                       THEN [status |-> "raise", exc |-> out.exc,
                             st |-> [r.st EXCEPT !.attrs = st.attrs]]
                       ELSE [status |-> "return", value |-> out.value,
                             st |-> [r.st EXCEPT !.succeeded[item] = @ + 1]] :
                 r \in {ReadFields([st EXCEPT !.invoked[item] = @ + 1], item,
                                   factory.func.reads, env)}})

\* DeferredValueFactory.__call__: return self.func().  func is a user_input
\* closure, or a function that reads its fields through config.<field> and
\* then returns or raises as the environment decides.
DeferredCall(st, item, factory, env) ==
    IF factory.func.name = "user_input"
    THEN user_input([st EXCEPT !.invoked[item] = @ + 1], item, factory.func)
    ELSE The({IF r.status = "raise" THEN r
              ELSE LET out == FuncResult(factory.func, r.st.seen[item], env[item])
                   IN  IF out.status = "raise"
                       THEN [status |-> "raise", exc |-> out.exc, st |-> r.st]
                       ELSE [status |-> "return", value |-> out.value,
                             st |-> [r.st EXCEPT !.succeeded[item] = @ + 1]] :
                 r \in {ReadFields([st EXCEPT !.invoked[item] = @ + 1], item,
                                   factory.func.reads, env)}})

\* Mutant of ReadFields: the producer reads the instance __dict__ directly,
\* past __getattribute__, so a Pending field is seen as its deferred object.
ReadFields_raw(st, item, reads, env) ==
    IF reads = <<>> THEN [status |-> "return", st |-> st]
    ELSE LET r == object_getattribute(st.attrs, Head(reads))
         IN  IF r.status = "raise"
             THEN [status |-> "raise", exc |-> r.exc, st |-> st]
             ELSE ReadFields_raw(
                    [st EXCEPT !.seen[item] = Append(@, r.value),
                               !.nread[Head(reads)] = TRUE],
                    item, Tail(reads), env)

\* The body of a producer: config.<reads[1]>, config.<reads[2]>, ... in order;
\* an exception of a read propagates out of the producer.
ReadFields(st, item, reads, env) ==
    IF reads = <<>> THEN [status |-> "return", st |-> st]
    ELSE The({IF r.status = "raise" THEN r
              ELSE ReadFields(
                     [r.st EXCEPT !.seen[item] = Append(@, r.value)],
                     item, Tail(reads), env) :
                 r \in {getattribute(st, Head(reads), env)}})

\* Config.__getattribute__(self, item)
getattribute(st, item, env) ==
    LET st1 == [st EXCEPT !.nread[item] = TRUE]
        found == object_getattribute(st.attrs, item)
    IN  IF found.status = "raise"
        THEN [status |-> "raise", exc |-> found.exc, st |-> st1]
        ELSE IF IsDeferred(found.value)
        THEN The({IF r.status = "raise" THEN r
                  ELSE [status |-> "return", value |-> r.value,
                        st |-> Memoize(r.st, item, r.value)] :
                     r \in {DeferredCall(st1, item, found.value, env)}})
        ELSE [status |-> "return", value |-> found.value, st |-> st1]

Zero == [k \in Keys |-> 0]
Never == [k \in Keys |-> FALSE]
WithinBounds(st) == \A k \in DOMAIN st.invoked : st.invoked[k] <= MaxCalls

\* No call of get_user_input is under way.
IdleInput ==
    /\ default = NO_DEFAULT /\ converter = PyNone
    /\ stdin = <<>> /\ pos = 0 /\ result = [status |-> "idle"] /\ nlog = 0

\* No installer has been called.
IdleInstall ==
    /\ stack = <<>> /\ _depth = 0 /\ logs = <<>> /\ calls = <<>>
    /\ ended = FALSE

\* No call of find_latest_github_tag is under way.
IdleTag ==
    /\ token = "" /\ repo = {}
    /\ reply = HttpError(0) /\ pc = "idle" /\ obj = EmptyObject /\ tag = ""
    /\ ret = [status |-> "idle"]

\* config = Config()
Init ==
    /\ IdleInput /\ IdleTag
    /\ IdleInstall /\ main = [ip |-> 0, status |-> "idle"]
    /\ attrs = << >>
    /\ nread = Never
    /\ invoked = Zero
    /\ succeeded = Zero
    /\ prompts = Zero
    /\ last = [op |-> "init"]

\* Mutant of SetValue: the value is wrapped as a deferred constant.
SetValue_lazy(key, value) ==
    /\ UNCHANGED <<uiVars, tagVars, instVars>>
    /\ attrs' = setattr(attrs, key, DeferredValueFactory(Func(<<>>)))
    /\ nread' = [nread EXCEPT ![key] = FALSE]
    /\ invoked' = [invoked EXCEPT ![key] = 0]
    /\ succeeded' = [succeeded EXCEPT ![key] = 0]
    /\ prompts' = [prompts EXCEPT ![key] = 0]
    /\ last' = [op |-> "set_value", key |-> key, value |-> value]

\* config.<key> = value, a concrete value (set_value)
SetValue(key, value) ==
    /\ UNCHANGED <<uiVars, tagVars, instVars>>
    /\ attrs' = setattr(attrs, key, value)
    /\ nread' = [nread EXCEPT ![key] = FALSE]
    /\ invoked' = [invoked EXCEPT ![key] = 0]
    /\ succeeded' = [succeeded EXCEPT ![key] = 0]
    /\ prompts' = [prompts EXCEPT ![key] = 0]
    /\ last' = [op |-> "set_value", key |-> key, value |-> value]

\* Mutant of SetDeferred: the producer is evaluated when it is registered.
SetDeferred_eager(key, func) ==
    /\ UNCHANGED <<uiVars, tagVars, instVars>>
    /\ func.reads = <<>>
    /\ \E v \in Values : attrs' = setattr(attrs, key, v)
    /\ nread' = [nread EXCEPT ![key] = FALSE]
    /\ invoked' = [invoked EXCEPT ![key] = 1]
    /\ succeeded' = [succeeded EXCEPT ![key] = 1]
    /\ prompts' = [prompts EXCEPT ![key] = 0]
    /\ last' = [op |-> "set_deferred", key |-> key]

\* config.<key> = deferred(func), or config.set(func) with func.__name__ = key
\* (set_deferred)
SetDeferred(key, func) ==
    /\ UNCHANGED <<uiVars, tagVars, instVars>>
    /\ attrs' = setattr(attrs, key, DeferredValueFactory(func))
    /\ nread' = [nread EXCEPT ![key] = FALSE]
    /\ invoked' = [invoked EXCEPT ![key] = 0]
    /\ succeeded' = [succeeded EXCEPT ![key] = 0]
    /\ prompts' = [prompts EXCEPT ![key] = 0]
    /\ last' = [op |-> "set_deferred", key |-> key]

\* config.<key>, read by the client (get), the user typing `lines` at the
\* prompts the read shows
GetTyping(key, env, lines) ==
    \E r \in {getattribute(CallState(lines), key, env)} :
        /\ WithinBounds(r.st)
        /\ UNCHANGED <<uiVars, tagVars, instVars>>
        /\ attrs' = r.st.attrs
        /\ nread' = r.st.nread
        /\ invoked' = r.st.invoked
        /\ succeeded' = r.st.succeeded
        /\ prompts' = r.st.prompts
        /\ last' = [op |-> "get", key |-> key, status |-> r.status,
                    value |-> IF r.status = "return" THEN r.value ELSE PyNone,
                    exc |-> IF r.status = "raise" THEN r.exc ELSE "",
                    seen |-> r.st.seen,
                    typed |-> SubSeq(lines, 1, Len(lines) - Len(r.st.stdin)),
                    called |-> {k \in DOMAIN invoked : r.st.invoked[k] > invoked[k]}]

\* config.<key>, read by the client (get), with no user at the keyboard
Get(key, env) == GetTyping(key, env, <<>>)

\* The fields a producer reads, as the sequence it was registered with.
ReadsOf(d, k) == d[k].func.reads
RangeOf(seq) == {seq[i] : i \in 1..Len(seq)}
\* The fields a get of k reaches through Pending producers, k included.
RECURSIVE Reached(_, _)
Reached(d, k) ==
    IF k \in DOMAIN d /\ IsDeferred(d[k])
    THEN {k} \cup UNION {Reached(d, x) : x \in RangeOf(ReadsOf(d, k))}
    ELSE {k}

\* The environment of one read of key: what each Pending producer the read
\* can reach does if it is invoked.
Envs(key) ==
    {env \in [Keys -> Outcomes] :
        \A k \in Keys :
            ~(k \in Reached(attrs, key) /\ k \in DOMAIN attrs
                    /\ IsDeferred(attrs[k]))
                => env[k] = Raise("Exception")}

Next ==
    \/ \E key \in Keys, value \in Values :
          SetValue(key, value) /\ UNCHANGED <<main, instVars>>
    \/ \E key \in Keys : \E func \in FuncsFor(key) :
          SetDeferred(key, func) /\ UNCHANGED <<main, instVars>>
    \/ \E key \in Keys : \E env \in Envs(key) :
          Get(key, env) /\ UNCHANGED <<main, instVars>>

Spec == Init /\ [][Next]_vars

\* A producer may also return deferred(func), a DeferredValueFactory of its
\* own: __getattribute__ makes one call, value = value().
NestedOutcomes == Outcomes \cup {Return(DeferredValueFactory(Func(<<>>)))}
NestedEnvs(key) ==
    {env \in [Keys -> NestedOutcomes] :
        \A k \in Keys :
            ~(k \in Reached(attrs, key) /\ k \in DOMAIN attrs
                    /\ IsDeferred(attrs[k]))
                => env[k] = Raise("Exception")}

NextNested ==
    \/ \E key \in Keys, value \in Values :
          SetValue(key, value) /\ UNCHANGED <<main, instVars>>
    \/ \E key \in Keys : \E func \in FuncsFor(key) :
          SetDeferred(key, func) /\ UNCHANGED <<main, instVars>>
    \/ \E key \in Keys : \E env \in NestedEnvs(key) :
          Get(key, env) /\ UNCHANGED <<main, instVars>>

SpecNested == Init /\ [][NextNested]_vars

\* ------------------------------------------- get_user_input, step by step
\* No Config is in use.
IdleConfig ==
    /\ attrs = << >> /\ nread = Never /\ invoked = Zero /\ succeeded = Zero
    /\ prompts = Zero /\ last = [op |-> "init"]

\* get_user_input(prompt, default, converter) is called and the user will
\* type the lines of stdin.
InitInput ==
    /\ IdleConfig /\ IdleTag
    /\ IdleInstall /\ main = [ip |-> 0, status |-> "idle"]
    /\ \E call \in Calls :
          /\ default = call[1] /\ converter = call[2]
          /\ stdin \in SeqsUpTo(Entries(call[1], call[2]), MaxLines)
    /\ pos = 0 /\ nlog = 0
    /\ result = [status |-> "running"]

\* One pass of the loop: input() returns the next line.
get_user_input_pass ==
    /\ result.status = "running" /\ pos < Len(stdin)
    /\ LET r == Iteration(default, converter, stdin[pos + 1])
       IN  /\ result' = IF r.status = "continue" THEN result ELSE r
           /\ nlog' = IF r.status = "continue" THEN nlog + 1 ELSE nlog
    /\ pos' = pos + 1
    /\ UNCHANGED <<default, converter, stdin, cfgVars, tagVars, main, instVars>>

\* input() at the end of the input: EOFError leaves the function.
get_user_input_eof ==
    /\ result.status = "running" /\ pos = Len(stdin)
    /\ result' = Raise("EOFError")
    /\ UNCHANGED <<default, converter, stdin, pos, nlog, cfgVars, tagVars, main, instVars>>

NextInput == get_user_input_pass \/ get_user_input_eof

SpecInput == InitInput /\ [][NextInput]_vars

\* ------------------------------------- create_user_config and install_all
\* The statements of create_user_config and, after it, the reads of config
\* and the installer calls of install_all, in program order.
Assign(key) == [op |-> "assign", key |-> key]
DeferInput(key, dflt, conv) ==
    [op |-> "defer_input", key |-> key, default |-> dflt, converter |-> conv]
ConfigSet(key, reads) == [op |-> "set", key |-> key, reads |-> reads]
Read(key) == [op |-> "read", key |-> key]
\* `if config.<key>`: a false value continues at statement `orelse`
Test(key, orelse) == [op |-> "test", key |-> key, orelse |-> orelse]
\* an installer call; when it returns the run continues at statement `next`
\* (0: at the statement after it)
Call(name, next) == [op |-> "call", name |-> name, next |-> next]
\* the default is read from config when the field is declared
FromConfig(key) == [type |-> "read", key |-> key]

create_user_config ==
    << Assign("N_MAX_SYSTEM_THREADS"),
       DeferInput("N_BUILD_THREADS", FromConfig("N_MAX_SYSTEM_THREADS"),
                  ThreadsLambda),
       DeferInput("DEVELOPMENT_VIRTUALENV_NAME", PyStr("sci"), PyNone),
       DeferInput("DEVELOPMENT_PYTHON_VERSION", PyStr("miniconda3-latest"),
                  Converter("strip_lower")),
       DeferInput("GIT_USER_NAME", PyStr("Angus Hollands"), PyNone),
       DeferInput("GIT_EMAIL_ADDRESS", PyStr("goosey15@gmail.com"), PyNone),
       DeferInput("GIT_KEY_LENGTH", PyInt(4096), Converter("int")),
       DeferInput("GITHUB_TOKEN", NO_DEFAULT, Converter("validate_github_token")),
       Assign("SYSTEM_VENV_NAME"),
       DeferInput("ROOT_USE_CONDA", PyStr("y"), Converter("yes_no_to_bool")),
       ConfigSet("CONDA_CMD", <<"DEVELOPMENT_VIRTUALENV_NAME">>) >>

install_all ==
    << Call("install_with_apt", 0),
       Read("GIT_USER_NAME"), Read("GIT_EMAIL_ADDRESS"), Call("install_git", 0),
       Call("install_zsh .. install_chrome", 0),
       Read("GIT_USER_NAME"), Read("GIT_EMAIL_ADDRESS"), Read("GIT_KEY_LENGTH"),
       Call("install_gnupg", 0),
       Call("install_fd, install_tmux", 0),
       Read("SYSTEM_VENV_NAME"), Call("install_pyenv", 0),
       Read("DEVELOPMENT_PYTHON_VERSION"), Read("DEVELOPMENT_VIRTUALENV_NAME"),
       Call("install_development_virtualenv", 0),
       Call("install_with_snap .. install_gnome_tweak_tool", 0),
       Read("GITHUB_TOKEN"), Call("install_pandoc", 0),
       Test("CONDA_CMD", 34), Test("ROOT_USE_CONDA", 34),
       Read("CONDA_CMD"), Call("config.CONDA_CMD", 38),
       Read("DEVELOPMENT_VIRTUALENV_NAME"), Read("N_BUILD_THREADS"),
       Read("GITHUB_TOKEN"), Call("install_root_from_source", 0),
       Read("GITHUB_TOKEN"), Read("N_BUILD_THREADS"), Call("install_geant4", 0),
       Call("install_tex", 0) >>

\* config = create_user_config(); install_all(config)
Main == create_user_config \o install_all
FirstInstall == Len(create_user_config) + 1
RunKeys == {Main[i].key : i \in {j \in 1..Len(Main) : Main[j].op # "call"}}
DeferredFields ==
    {Main[i].key : i \in {j \in 1..Len(Main) : Main[j].op \in {"defer_input", "set"}}}

\* What the environment supplies during a run: the thread count probed, the
\* version string, the lines a user types at the prompt of a field.
ThreadCounts == {PyInt(1), PyInt(2)}
AssignedValues(key) ==
    IF key = "N_MAX_SYSTEM_THREADS" THEN ThreadCounts ELSE {PyStr("3.8.2-system")}
TextsFor(conv) ==
    IF conv = PyNone THEN {"", "abc"}
    ELSE CASE conv.name = "strip_lower" -> {"", " Y "}
           [] conv.name = "int" -> {"", "abc", "2"}
           [] conv.name = "convert_number_threads" -> {"", "0", "2", "3"}
           [] conv.name = "lambda_convert_number_threads" -> {"", "abc", "0", "2", "3"}
           [] conv.name = "yes_no_to_bool" -> {"", "abc"}
           [] OTHER -> {"", "abc"}
TypedEntries(conv) ==
    {e \in Entries(NO_DEFAULT, conv) : e.text \in TextsFor(conv)}
\* The lines typed during a read of key: none unless the read prompts.
TypedLines(key) ==
    IF key \in DOMAIN attrs /\ IsDeferred(attrs[key])
            /\ attrs[key].func.name = "user_input"
    THEN SeqsUpTo(TypedEntries(attrs[key].func.converter), MaxLines)
    ELSE {<<>>}
\* Whether get_conda finds a working conda.
RunEnvs ==
    {[k \in RunKeys |-> o] : o \in {Return(PyStr("conda")), Raise("FileNotFoundError")}}
\* bool(value) of `if config.<key>`
Truthy(value) ==
    CASE value.type = "NoneType" -> FALSE
      [] value.type = "bool" -> value.b
      [] OTHER -> TRUE

Instr == Main[main.ip]
Running == main.status = "running" /\ main.ip <= Len(Main)
\* The statement after the current one; the run is done after the last.
Goto(ip) ==
    IF ip > Len(Main) THEN [ip |-> ip, status |-> "done"]
    ELSE [ip |-> ip, status |-> "running"]
Raised == [ip |-> main.ip, status |-> "raised"]

\* python setup.py install: bootstrap() done, create_user_config() starts
InitRun ==
    /\ IdleInput /\ IdleTag
    /\ attrs = << >>
    /\ nread = [k \in RunKeys |-> FALSE]
    /\ invoked = [k \in RunKeys |-> 0]
    /\ succeeded = [k \in RunKeys |-> 0]
    /\ prompts = [k \in RunKeys |-> 0]
    /\ last = [op |-> "init"]
    /\ IdleInstall /\ main = [ip |-> 1, status |-> "running"]

\* config.<key> = <value computed at once>
main_assign ==
    /\ Running /\ Instr.op = "assign"
    /\ \E value \in AssignedValues(Instr.key) : SetValue(Instr.key, value)
    /\ main' = Goto(main.ip + 1)

\* config.<key> = deferred_user_input(prompt, default, converter)
main_defer_input ==
    /\ Running /\ Instr.op = "defer_input"
    /\ \E r \in {IF Instr.default.type = "read"
                   THEN getattribute(CallState(<<>>), Instr.default.key,
                                     [k \in RunKeys |-> Raise("Exception")])
                   ELSE [value |-> Instr.default, st |-> CallState(<<>>)]} :
       LET dflt == r.value
           st == r.st
       IN  /\ attrs' = setattr(st.attrs, Instr.key,
                               deferred_user_input(dflt, Instr.converter))
           /\ nread' = [st.nread EXCEPT ![Instr.key] = FALSE]
           /\ invoked' = [st.invoked EXCEPT ![Instr.key] = 0]
           /\ succeeded' = [st.succeeded EXCEPT ![Instr.key] = 0]
           /\ prompts' = [st.prompts EXCEPT ![Instr.key] = 0]
    /\ last' = [op |-> "set_deferred", key |-> Instr.key]
    /\ main' = Goto(main.ip + 1)
    /\ UNCHANGED <<uiVars, tagVars, instVars>>

\* @config.set def CONDA_CMD(): ...
main_config_set ==
    /\ Running /\ Instr.op = "set"
    /\ SetDeferred(Instr.key, [name |-> Instr.key, reads |-> Instr.reads])
    /\ main' = Goto(main.ip + 1)

\* config.<key> as an argument of an installer call or as an `if` condition;
\* an exception of the read ends the run.
main_read ==
    /\ Running /\ Instr.op \in {"read", "test"}
    /\ \E env \in RunEnvs : \E lines \in TypedLines(Instr.key) :
          GetTyping(Instr.key, env, lines)
    /\ main' = IF last'.status = "raise" THEN Raised
               ELSE IF Instr.op = "test" /\ ~Truthy(last'.value)
               THEN Goto(Instr.orelse)
               ELSE Goto(main.ip + 1)

\* install_...(...) or config.CONDA_CMD(...): the call returns or raises, and
\* an exception ends the run.
main_call ==
    /\ Running /\ Instr.op = "call"
    /\ \E status \in {"return", "raise"} :
          /\ last' = [op |-> "call", name |-> Instr.name, status |-> status]
          /\ main' = IF status = "raise" THEN Raised
                     ELSE Goto(IF Instr.next = 0 THEN main.ip + 1 ELSE Instr.next)
    /\ UNCHANGED <<attrs, nread, invoked, succeeded, prompts, uiVars, tagVars, instVars>>

NextRun ==
    main_assign \/ main_defer_input \/ main_config_set \/ main_read \/ main_call

SpecRun == InitRun /\ [][NextRun]_vars

\* ---------------------------------------------------- installer, context
\* The functions the decoration loop wraps, what they return and raise.
\* `except Exception` catches the first kind of exception only.
InstallerNames == {"install_git", "install_with_apt"}
Results == {PyNone, PyInt(0)}
Exceptions == {"ProcessExecutionError"}
BaseExceptions == {"KeyboardInterrupt"}
\* isinstance(e, Exception)
IsException(e) == e \in Exceptions

None == [status |-> "none"]
\* One call of wrapper(*args, **kwargs)
Frame(id, func) == [id |-> id, func |-> func, pc |-> "log_running", result |-> None]
\* The history record of a call: _depth before it, the calls of func, how
\* func ended, how the wrapper ended, _depth after it.
CallRecord(func, before) ==
    [func |-> func, before |-> before, invoked |-> 0, body |-> None,
     outcome |-> None, after |-> 0]
\* log(message): the line and the indentation prefix() gives it
LogLine(id, kind, func) == [id |-> id, kind |-> kind, func |-> func, prefix |-> _depth]

Top == stack[Len(stack)]
SetTop(frame) == [stack EXCEPT ![Len(stack)] = frame]
\* The statement of wrapper an exception raised inside the try block goes
\* to: the except clause, or past it to the exit of the with block.
OnRaise(e) == IF IsException(e) THEN "except" ELSE "context_exit"

\* Mutant of Handler: the except clause logs and swallows the exception.
Handler_swallow(exception) == Return(PyNone)

\* except Exception: log(...); raise
Handler(exception) == exception

\* context(): the generator after its yield.  When the with block raised,
\* the exception is thrown into the generator at the yield, which has no
\* try/finally: `_depth -= 1` is not reached.
context_exit(depth, raised) == IF raised THEN depth ELSE depth - 1

\* python setup.py install, before the first installer is called
InitInstall ==
    /\ IdleConfig /\ IdleInput /\ IdleTag
    /\ main = [ip |-> 0, status |-> "idle"]
    /\ stack = <<>> /\ _depth = 0 /\ logs = <<>> /\ calls = <<>>
    /\ ended = FALSE

\* install_...(...), called from the top level or from inside a wrapped
\* function
installer_call ==
    /\ ~ended /\ Len(calls) < MaxInstalls
    /\ IF stack = <<>> THEN TRUE ELSE Top.pc = "func"
    /\ \E func \in InstallerNames :
          /\ stack' = Append(stack, Frame(Len(calls) + 1, func))
          /\ calls' = Append(calls, CallRecord(func, _depth))
    /\ UNCHANGED <<_depth, logs, ended, uiVars, cfgVars, tagVars, main>>

\* log(f"Running {func_string}")
wrapper_log_running ==
    /\ stack # <<>> /\ Top.pc = "log_running"
    /\ logs' = Append(logs, LogLine(Top.id, "Running", Top.func))
    /\ stack' = SetTop([Top EXCEPT !.pc = "context_enter"])
    /\ UNCHANGED <<_depth, calls, ended, uiVars, cfgVars, tagVars, main>>

\* with context(): _depth += 1; yield -- and func(*args, **kwargs) is called
context_enter ==
    /\ stack # <<>> /\ Top.pc = "context_enter"
    /\ _depth' = _depth + 1
    /\ calls' = [calls EXCEPT ![Top.id].invoked = @ + 1]
    /\ stack' = SetTop([Top EXCEPT !.pc = "func"])
    /\ UNCHANGED <<logs, ended, uiVars, cfgVars, tagVars, main>>

\* the wrapped function returns
func_return ==
    /\ stack # <<>> /\ Top.pc = "func"
    /\ \E v \in Results :
          /\ stack' = SetTop([Top EXCEPT !.pc = "context_exit", !.result = Return(v)])
          /\ calls' = [calls EXCEPT ![Top.id].body = Return(v)]
    /\ UNCHANGED <<_depth, logs, ended, uiVars, cfgVars, tagVars, main>>

\* the wrapped function raises
func_raise ==
    /\ stack # <<>> /\ Top.pc = "func"
    /\ \E e \in Exceptions \cup BaseExceptions :
          /\ stack' = SetTop([Top EXCEPT !.pc = OnRaise(e), !.result = Raise(e)])
          /\ calls' = [calls EXCEPT ![Top.id].body = Raise(e)]
    /\ UNCHANGED <<_depth, logs, ended, uiVars, cfgVars, tagVars, main>>

\* except Exception: log(f"Execution of {func_string} failed", ...); raise
wrapper_except ==
    /\ stack # <<>> /\ Top.pc = "except"
    /\ logs' = Append(logs, LogLine(Top.id, "Failed", Top.func))
    /\ stack' = SetTop([Top EXCEPT !.pc = "context_exit", !.result = Handler(Top.result)])
    /\ UNCHANGED <<_depth, calls, ended, uiVars, cfgVars, tagVars, main>>

\* The with block is left.  After a return the wrapper goes on to its last
\* log line; an exception leaves the wrapper and is raised in the caller,
\* at its call of this installer.
wrapper_context_exit ==
    /\ stack # <<>> /\ Top.pc = "context_exit"
    /\ _depth' = context_exit(_depth, Top.result.status = "raise")
    /\ IF Top.result.status = "return"
       THEN /\ stack' = SetTop([Top EXCEPT !.pc = "log_finished"])
            /\ UNCHANGED <<calls, ended>>
       ELSE LET caller == Len(stack) - 1
                popped == SubSeq(stack, 1, caller)
            IN  /\ stack' = IF caller = 0 THEN popped
                            ELSE [popped EXCEPT
                                    ![caller].pc = OnRaise(Top.result.exc),
                                    ![caller].result = Top.result]
                /\ calls' = [i \in 1..Len(calls) |->
                                IF i = Top.id
                                THEN [calls[i] EXCEPT !.outcome = Top.result,
                                                      !.after = _depth']
                                ELSE IF caller # 0 /\ i = stack[caller].id
                                THEN [calls[i] EXCEPT !.body = Top.result]
                                ELSE calls[i]]
                /\ ended' = (caller = 0)
    /\ UNCHANGED <<logs, uiVars, cfgVars, tagVars, main>>

\* log(f"Finished {func_string}"); return result
wrapper_log_finished ==
    /\ stack # <<>> /\ Top.pc = "log_finished"
    /\ logs' = Append(logs, LogLine(Top.id, "Finished", Top.func))
    /\ calls' = [calls EXCEPT ![Top.id].outcome = Top.result,
                              ![Top.id].after = _depth]
    /\ stack' = SubSeq(stack, 1, Len(stack) - 1)
    /\ UNCHANGED <<_depth, ended, uiVars, cfgVars, tagVars, main>>

NextInstall ==
    \/ installer_call \/ wrapper_log_running \/ context_enter
    \/ func_return \/ func_raise \/ wrapper_except
    \/ wrapper_context_exit \/ wrapper_log_finished

SpecInstall == InitInstall /\ [][NextInstall]_vars

\* ----------------------------------- find_latest_github_tag, step by step
\* find_latest_github_tag(token, owner, name) is called and the endpoint
\* will answer `reply`.
InitTag ==
    /\ IdleConfig /\ IdleInput
    /\ IdleInstall /\ main = [ip |-> 0, status |-> "idle"]
    /\ token \in Tokens /\ repo = {}
    /\ reply \in TagReplies
    /\ pc = "query" /\ obj = EmptyObject /\ tag = ""
    /\ ret = [status |-> "running"]

\* result = execute_github_graphql_query(token, query)
find_query ==
    /\ pc = "query"
    /\ LET r == execute_github_graphql_query(token, reply)
       IN  IF r.status = "raise"
           THEN pc' = "raised" /\ ret' = r
           ELSE pc' = "unpack" /\ ret' = ret
    /\ UNCHANGED <<token, repo, reply, obj, tag, uiVars, cfgVars, main, instVars>>

\* (edge,) = result[...]["edges"]; obj = edge["node"]; tag = obj["name"]
find_unpack ==
    /\ pc = "unpack"
    /\ \E edge \in {UnpackSingle(reply.body.data.repository.refs.edges)} :
           IF edge.status = "raise"
           THEN /\ pc' = "raised" /\ ret' = edge
                /\ UNCHANGED <<obj, tag>>
           ELSE /\ obj' = edge.value.node
                /\ tag' = edge.value.node.name
                /\ pc' = "walk" /\ ret' = ret
    /\ UNCHANGED <<token, repo, reply, uiVars, cfgVars, main, instVars>>

\* while "target" in obj: obj = obj["target"]
find_walk ==
    /\ pc = "walk" /\ LoopCondition(obj)
    /\ obj' = obj.target
    /\ UNCHANGED <<token, repo, reply, pc, tag, ret, uiVars, cfgVars, main, instVars>>

\* url = obj["tarballUrl"]; return GitTag(name=tag, tarball_url=url)
find_return ==
    /\ pc = "walk" /\ ~LoopCondition(obj)
    /\ IF "tarballUrl" \in DOMAIN obj
       THEN pc' = "done" /\ ret' = Return(GitTag(tag, obj.tarballUrl))
       ELSE pc' = "raised" /\ ret' = Raise("KeyError")
    /\ UNCHANGED <<token, repo, reply, obj, tag, uiVars, cfgVars, main, instVars>>

NextTag == find_query \/ find_unpack \/ find_walk \/ find_return

SpecTag == InitTag /\ [][NextTag]_vars

\* execute_github_graphql_query(token, query), called on its own
InitQuery ==
    /\ IdleConfig /\ IdleInput
    /\ IdleInstall /\ main = [ip |-> 0, status |-> "idle"]
    /\ token \in Tokens /\ repo = {}
    /\ reply \in QueryResponses
    /\ pc = "call" /\ obj = EmptyObject /\ tag = ""
    /\ ret = [status |-> "running"]

\* try: resp = request.urlopen(req) ... return result
execute_call ==
    /\ pc = "call"
    /\ ret' = execute_github_graphql_query(token, reply)
    /\ pc' = IF ret'.status = "raise" THEN "raised" ELSE "done"
    /\ UNCHANGED <<token, repo, reply, obj, tag, uiVars, cfgVars, main, instVars>>

NextQuery == execute_call

SpecQuery == InitQuery /\ [][NextQuery]_vars

\* find_latest_github_tag(token, owner, name) on a repository whose tags are
\* known: the endpoint answers the query as it was written.
InitLatest ==
    /\ IdleConfig /\ IdleInput
    /\ IdleInstall /\ main = [ip |-> 0, status |-> "idle"]
    /\ token \in Tokens
    /\ repo \in Repositories
    /\ reply = TagQueryReply(repo)
    /\ pc = "query" /\ obj = EmptyObject /\ tag = ""
    /\ ret = [status |-> "running"]

SpecLatest == InitLatest /\ [][NextTag]_vars

\* ------------------------------------------------------ claims on installer
\* The lines call i has logged, in order, and their kinds.
LogsOf(i) == LET IsOf(l) == l.id = i IN SelectSeq(logs, IsOf)
KindsOf(i) == [j \in 1..Len(LogsOf(i)) |-> LogsOf(i)[j].kind]
Ended(i) == calls[i].outcome.status # "none"

\* What holds of call i whatever the exception: "Running" is logged before
\* func runs, func runs at most once, "Finished" is logged only after func
\* returned, and the call ends as func ended.
C16_Common(i) ==
    /\ calls[i].invoked <= 1
    /\ calls[i].invoked = 1 => (KindsOf(i) # <<>> /\ KindsOf(i)[1] = "Running")
    /\ (\E j \in 1..Len(KindsOf(i)) : KindsOf(i)[j] = "Finished")
          => calls[i].body.status = "return"
    /\ Ended(i) => (calls[i].invoked = 1 /\ calls[i].outcome = calls[i].body)
    /\ calls[i].outcome.status = "return" => KindsOf(i) = <<"Running", "Finished">>

\* C16 as stated: every call of a wrapped function logs "Running" first,
\* runs the function exactly once, and then either logs "Finished" and
\* returns the function's result unchanged, or logs "Execution of ... failed"
\* and re-raises the same exception.
C16_FailureAlwaysLogged ==
    \A i \in 1..Len(calls) :
        /\ C16_Common(i)
        /\ calls[i].outcome.status = "raise" => KindsOf(i) = <<"Running", "Failed">>

\* C16, amended: every call of a wrapped function logs "Running" first, runs
\* the function exactly once, and then either logs "Finished" and returns
\* the function's result unchanged, or re-raises the same exception; the
\* line "Execution of ... failed" is logged before the re-raise when the
\* exception is an instance of Exception, and no line is logged when it is
\* not (KeyboardInterrupt).  "Finished" is never logged for a call that
\* failed, and a failure is never swallowed.
C16_LogsThenReturnsOrReraises ==
    \A i \in 1..Len(calls) :
        /\ C16_Common(i)
        /\ calls[i].outcome.status = "raise" =>
              KindsOf(i) = IF IsException(calls[i].outcome.exc)
                           THEN <<"Running", "Failed">>
                           ELSE <<"Running">>

\* One call has returned and another has re-raised an Exception, its
\* failure line logged.
C16_Witness ==
    /\ \E i \in 1..Len(calls) : calls[i].outcome.status = "return"
    /\ \E i \in 1..Len(calls) :
          /\ calls[i].outcome.status = "raise"
          /\ IsException(calls[i].outcome.exc)
          /\ KindsOf(i) = <<"Running", "Failed">>

\* C18: after a call of a wrapped function has ended, by a return or by an
\* exception, _depth is what it was just before the call; _depth is never
\* negative.
C18_DepthBalanced ==
    /\ _depth >= 0
    /\ \A i \in 1..Len(calls) : Ended(i) => calls[i].after = calls[i].before

\* ------------------------------------------ claims on find_latest_github_tag
\* C10: for a reference node whose chain of "target" objects ends, at any
\* depth, in a commit, the call returns (it does not raise), the URL is the
\* tarballUrl of that innermost commit and the name is the name of the
\* reference node; and the call returns only once obj has no "target".
C10_FollowsTargets ==
    /\ \A n \in TagNames, d \in 1..MaxDepth, u \in Urls :
          (reply = HttpOk(RefsBody(<<Edge(Node(n, Chain(d, Bottom(d, u))))>>))
                /\ pc \in {"done", "raised"})
            => pc = "done" /\ ret = Return(GitTag(n, u))
    /\ pc = "done" => "target" \notin DOMAIN obj /\ ret.value.tarball_url = obj.tarballUrl
\* C10 witness: an annotated tag (tag object -> commit) was resolved to the
\* commit's URL under the name of the reference.
C10_Witness ==
    /\ pc = "done"
    /\ \E n \in TagNames, u \in Urls :
          /\ reply = HttpOk(RefsBody(<<Edge(Node(n, Tag("annotated", InnerCommit(u))))>>))
          /\ ret = Return(GitTag(n, u))

\* ------------------------------------ claims on execute_github_graphql_query
\* C12: the call raises TokenInvalidError if and only if the request failed
\* with status 401; a request that failed with any other status raises the
\* HTTPError of that status.
C12_AuthenticationErrorIff401 ==
    pc \in {"done", "raised"} =>
        /\ (ret.status = "raise" /\ ret.exc = "TokenInvalidError") <=> reply.code = 401
        /\ reply.code \notin {200, 401} => ret = HTTPError(reply.code)
\* C12 witness: a request that failed with 403 raised HTTPError(403), not
\* TokenInvalidError.
C12_Witness == pc = "raised" /\ reply.code = 403 /\ ret = HTTPError(403)

\* The lines of a text: its parts split at the "\n" separators.
RECURSIVE SplitLines(_)
SplitLines(text) ==
    IF \A i \in 1..Len(text) : text[i] # "\n" THEN <<text>>
    ELSE LET i == CHOOSE j \in 1..Len(text) :
                    text[j] = "\n" /\ \A k \in 1..(j - 1) : text[k] # "\n"
         IN  <<SubSeq(text, 1, i - 1)>> \o SplitLines(SubSeq(text, i + 1, Len(text)))
Contains(line, part) == \E i \in 1..Len(line) : line[i] = part
\* C13: a payload with a non-empty errors array makes the call raise
\* ValueError with a message of one line per error, in the order of the
\* array, each line holding the error's message and a "(line X, column Y)"
\* entry for every location of the error.
C13_OneLinePerError ==
    (pc \in {"done", "raised"} /\ reply.code = 200
        /\ "errors" \in DOMAIN reply.body /\ reply.body.errors # <<>>) =>
        /\ ret.status = "raise" /\ ret.exc = "ValueError"
        /\ LET errors == reply.body.errors
               lines == SplitLines(ret.message)
           IN  /\ Len(lines) = Len(errors)
               /\ \A i \in 1..Len(errors) :
                     /\ Contains(lines[i], errors[i].message)
                     /\ "locations" \in DOMAIN errors[i] =>
                           \A j \in 1..Len(errors[i].locations) :
                               Contains(lines[i], LocationString(errors[i].locations[j]))

\* C11: for a repository with at least one tag the call returns the tag
\* reference that was created most recently, whatever the tags' names are.
C11_MostRecentTag ==
    (repo # {} /\ pc \in {"done", "raised"}) =>
        /\ pc = "done"
        /\ \E x \in repo :
              /\ x.name = ret.value.name
              /\ \A y \in repo : y.created <= x.created

\* C14: when the query succeeds and the edges list is empty (the repository
\* has no tags) the call ends with an exception and never reaches the walk;
\* it returns a GitTag only when exactly one edge is present.
C14_NoTagsIsAnError ==
    /\ reply = HttpOk(RefsBody(<<>>)) =>
          /\ pc \in {"query", "unpack", "raised"}
          /\ pc = "raised" => ret.status = "raise"
    /\ pc = "done" =>
          /\ ret.status = "return"
          /\ Len(reply.body.data.repository.refs.edges) = 1
\* C14 witness: the answer held no edge and the call raised ValueError at
\* the unpacking.
C14_Witness ==
    /\ reply = HttpOk(RefsBody(<<>>))
    /\ pc = "raised" /\ ret = Raise("ValueError")

\* ------------------------------------------------ claims on get_user_input
\* C8: with no converter, a call that returned with a default read one line
\* and returned the default if the line was empty and the line itself
\* otherwise; without a default it returned the first non-empty line, every
\* line before it being empty and answered by one error line each; and a
\* call still prompting after some lines has no default and saw only empty
\* lines.  So the value is the default or a non-empty line.
C8_NoConverter ==
    converter = PyNone =>
        /\ result.status = "return" =>
              /\ pos >= 1
              /\ default # NO_DEFAULT =>
                    /\ pos = 1
                    /\ result.value = IF stdin[1].text = "" THEN default
                                      ELSE PyStr(stdin[1].text)
              /\ default = NO_DEFAULT =>
                    /\ stdin[pos].text # ""
                    /\ result.value = PyStr(stdin[pos].text)
                    /\ \A i \in 1..(pos - 1) : stdin[i].text = ""
                    /\ nlog = pos - 1
              /\ \/ result.value = default
                 \/ result.value.type = "str" /\ result.value.s # ""
        /\ (result.status = "running" /\ pos > 0) =>
              /\ default = NO_DEFAULT
              /\ \A i \in 1..pos : stdin[i].text = ""
        /\ result.status = "raise" => result.exc = "EOFError"
\* C8 witness: without default or converter, an empty line was answered by
\* a new prompt and the non-empty line typed next was returned.
C8_Witness ==
    /\ converter = PyNone /\ default = NO_DEFAULT
    /\ result.status = "return" /\ pos = 2 /\ nlog = 1
    /\ stdin[1].text = "" /\ result.value = PyStr(stdin[2].text)

\* The value the i-th line stands for, and what the converter makes of it.
Candidate(i) == IF stdin[i].text = "" THEN default ELSE PyStr(stdin[i].text)
Converted(i) == Convert(converter, Candidate(i), stdin[i].http)
\* The i-th line is refused: empty without a default, or a ValueError of the
\* converter.
Refused(i) ==
    \/ default = NO_DEFAULT /\ stdin[i].text = ""
    \/ /\ ~(default = NO_DEFAULT /\ stdin[i].text = "")
       /\ Converted(i).status = "raise" /\ IsValueError(Converted(i).exc)
\* C9 as claimed: with a converter, no error of the converter reaches the
\* caller (the call raises only at the end of the input).
C9_NeverPropagates ==
    (converter # PyNone /\ result.status = "raise") => result.exc = "EOFError"
\* C9 amended: with a converter, a ValueError of the converter (which
\* includes TokenInvalidError) is not propagated: one error line is logged
\* and the next line is read; the call returns only what the converter
\* returned for the last line read; an exception of the converter that is
\* not a ValueError leaves the call.
C9_ValueErrorReprompts ==
    converter # PyNone =>
        /\ result.status = "running" =>
              nlog = pos /\ \A i \in 1..pos : Refused(i)
        /\ result.status = "return" =>
              /\ pos >= 1 /\ nlog = pos - 1
              /\ \A i \in 1..(pos - 1) : Refused(i)
              /\ Converted(pos).status = "return"
              /\ result.value = Converted(pos).value
        /\ result.status = "raise" =>
              \/ /\ result.exc = "EOFError" /\ pos = Len(stdin)
                 /\ nlog = pos /\ \A i \in 1..pos : Refused(i)
              \/ /\ pos >= 1 /\ nlog = pos - 1
                 /\ \A i \in 1..(pos - 1) : Refused(i)
                 /\ Converted(pos).status = "raise"
                 /\ ~IsValueError(Converted(pos).exc)
                 /\ result.exc = Converted(pos).exc
\* C9 witness: the converter refused the first line with a ValueError, the
\* prompt was shown again and the converted second line was returned.
C9_Witness ==
    /\ converter # PyNone /\ result.status = "return" /\ pos = 2 /\ nlog = 1
    /\ stdin[1].text # ""
    /\ Converted(1).status = "raise" /\ IsValueError(Converted(1).exc)
    /\ result.value = Converted(2).value

\* ------------------------------------------------------- claims on Config
\* The two states of a registered field.
Pending(k) == k \in DOMAIN attrs /\ IsDeferred(attrs[k])
Resolved(k) == k \in DOMAIN attrs /\ ~IsDeferred(attrs[k])

\* C1, state part: a producer returns at most once, after which the field is
\* Resolved; and while no call of the producer has raised, it has been
\* invoked at most once, on the first read (a field that was read is no
\* longer Pending).
C1_Once ==
    \A k \in Keys :
        /\ succeeded[k] <= 1
        /\ succeeded[k] = 1 => Resolved(k)
        /\ invoked[k] = succeeded[k] =>
                invoked[k] <= 1 /\ (Pending(k) => ~nread[k])
\* C1, step part: a read leaves every Resolved field as it is and invokes
\* no producer for it, returns the memoized value of a Resolved field, and
\* whatever a read returns is what the field holds afterwards.
C1_Step ==
    last'.op = "get" =>
        /\ \A k \in Keys :
              Resolved(k) => attrs'[k] = attrs[k] /\ invoked'[k] = invoked[k]
        /\ Resolved(last'.key) =>
              last'.status = "return" /\ last'.value = attrs[last'.key]
        /\ last'.status = "return" => attrs'[last'.key] = last'.value
C2_Step ==
    (last'.op = "get" /\ Pending(last'.key)) =>
        /\ invoked'[last'.key] = invoked[last'.key] + 1
        /\ last'.status = "raise" =>
              /\ attrs'[last'.key] = attrs[last'.key]
              /\ succeeded'[last'.key] = succeeded[last'.key]
              /\ last'.exc \in {"Exception", "AttributeError"}
        /\ last'.status = "return" =>
              succeeded'[last'.key] = succeeded[last'.key] + 1
\* C2: a producer that raises during get makes get raise, leaves the field
\* Pending, and the next get invokes the producer again.
C2_RetryOnNextRead == [][C2_Step]_vars
\* C2 witness: a get returned on the second invocation of the producer, the
\* first one having raised.
C2_Witness ==
    /\ last.op = "get" /\ last.status = "return"
    /\ invoked[last.key] = 2 /\ succeeded[last.key] = 1
    /\ last.key \in last.called

\* C3, state part: the producer of a field that was never read since it was
\* assigned has been invoked zero times.
C3_NeverRead == \A k \in Keys : ~nread[k] => invoked[k] = 0 /\ succeeded[k] = 0
\* C3, step part: a Pending field stops being Pending only in a get that
\* read it (as the key of the get or from inside a producer the get ran),
\* or by the client assigning the attribute anew.
C3_Step ==
    \A k \in Keys :
        (Pending(k) /\ ~(k \in DOMAIN attrs' /\ IsDeferred(attrs'[k]))) =>
            \/ last'.op = "get" /\ nread'[k] /\ k \in last'.called
            \/ last'.op = "set_value" /\ last'.key = k
\* C3: a Pending field becomes Resolved only through a get of that field; a
\* deferred field that was never read is Pending with zero invocations.
C3_OnlyGetResolves == []C3_NeverRead /\ [][C3_Step]_vars
\* C3 witness: a get resolved one field while another deferred field, never
\* read, is still Pending and was never invoked.
C3_Witness ==
    /\ last.op = "get" /\ last.status = "return" /\ last.called # {}
    /\ \E k \in Keys : Pending(k) /\ ~nread[k] /\ invoked[k] = 0

\* C4 step: a statement that registers a deferred field stores a deferred
\* object under its name, invokes no producer, shows no prompt, reads no
\* line and changes no other field.
C4_Step ==
    last'.op = "set_deferred" =>
        /\ IsDeferred(attrs'[last'.key])
        /\ \A k \in DOMAIN invoked :
              /\ invoked'[k] <= invoked[k]
              /\ succeeded'[k] <= succeeded[k]
              /\ prompts'[k] <= prompts[k]
        /\ \A k \in DOMAIN attrs \ {last'.key} : attrs'[k] = attrs[k]
        /\ stdin' = stdin /\ pos' = pos
\* C4, state part: until install_all starts, no producer has been invoked
\* and no prompt shown, and every deferred field declared so far is Pending;
\* when create_user_config returns, all of them are declared.
C4_Declared ==
    (main.status = "running" /\ main.ip <= FirstInstall) =>
        /\ \A k \in RunKeys : invoked[k] = 0 /\ prompts[k] = 0
        /\ \A i \in 1..(main.ip - 1) :
              Main[i].op \in {"defer_input", "set"} => Pending(Main[i].key)
\* C4: registering a deferred field (assigning a DeferredValueFactory or
\* calling Config.set) invokes no producer and reads no user input, and
\* create_user_config completes with every deferred field still Pending and
\* no prompt issued.
C4_NoEvaluationAtRegistration == []C4_Declared /\ [][C4_Step]_vars
\* C4 witness: create_user_config has returned, its nine deferred fields are
\* Pending and its two computed fields are stored.
C4_Witness ==
    /\ main.status = "running" /\ main.ip = FirstInstall
    /\ Cardinality(DeferredFields) = 9
    /\ \A k \in DeferredFields : Pending(k) /\ prompts[k] = 0
    /\ \A k \in RunKeys \ DeferredFields : Resolved(k)

\* The endpoint accepted the test query sent for a typed line.
Accepted(entry) ==
    entry.http.code = 200 /\ "errors" \notin DOMAIN entry.http.body
\* C15 step: GITHUB_TOKEN stops being Pending only in a get of it that
\* returns the last line typed, a non-empty line whose test query was
\* accepted, every line before it having been refused; a line rejected with
\* 401 is followed by a new prompt, and a get that raises leaves the field
\* Pending; a Resolved token never changes.
C15_Step ==
    /\ (Pending("GITHUB_TOKEN") /\ ~Pending("GITHUB_TOKEN")') =>
          /\ last'.op = "get" /\ last'.key = "GITHUB_TOKEN"
          /\ last'.status = "return" /\ last'.typed # <<>>
          /\ LET n == Len(last'.typed)
             IN  /\ Accepted(last'.typed[n]) /\ last'.typed[n].text # ""
                 /\ last'.value = PyStr(last'.typed[n].text)
                 /\ attrs'["GITHUB_TOKEN"] = last'.value
                 /\ \A i \in 1..(n - 1) :
                       last'.typed[i].text = "" \/ ~Accepted(last'.typed[i])
    /\ (last'.op = "get" /\ last'.key = "GITHUB_TOKEN" /\ Pending("GITHUB_TOKEN")) =>
          /\ \A i \in 1..Len(last'.typed) :
                (last'.typed[i].text # "" /\ last'.typed[i].http.code = 401) =>
                    prompts'["GITHUB_TOKEN"] >= prompts["GITHUB_TOKEN"] + i + 1
          /\ last'.status = "raise" => Pending("GITHUB_TOKEN")'
    /\ Resolved("GITHUB_TOKEN") => attrs'["GITHUB_TOKEN"] = attrs["GITHUB_TOKEN"]
\* C15: validate_github_token, as the converter of the GITHUB_TOKEN prompt,
\* returns the token typed when the test query is accepted and raises when
\* it is rejected; a token rejected with 401 causes a re-prompt and leaves
\* the field Pending, so a Resolved GITHUB_TOKEN is a non-empty string whose
\* test query succeeded.
C15_ResolvedTokenWasAccepted ==
    /\ [](Resolved("GITHUB_TOKEN") =>
            attrs["GITHUB_TOKEN"].type = "str" /\ attrs["GITHUB_TOKEN"].s # "")
    /\ [][C15_Step]_vars
\* C15 witness: the first token typed was rejected with 401, the prompt was
\* shown again and the second token, accepted, became the field's value.
C15_Witness ==
    /\ last.op = "get" /\ last.key = "GITHUB_TOKEN" /\ last.status = "return"
    /\ Len(last.typed) = 2
    /\ last.typed[1].text # "" /\ last.typed[1].http.code = 401
    /\ Accepted(last.typed[2])
    /\ Resolved("GITHUB_TOKEN") /\ attrs["GITHUB_TOKEN"] = PyStr(last.typed[2].text)
    /\ prompts["GITHUB_TOKEN"] = 2

\* The line is the decimal literal of a number n with 0 < n <= total.
InRange(text, total) ==
    text \in DOMAIN IntLiteral /\ 0 < IntLiteral[text] /\ IntLiteral[text] <= total
\* C17 step: N_BUILD_THREADS stops being Pending only in a get of it that
\* returns for the last line typed: N_MAX_SYSTEM_THREADS for the empty line,
\* else int(line) with the line in range; every line typed before, and
\* every line typed in a get that raised, is a non-empty line out of range
\* or no number (refused, not clamped).
C17_Step ==
    LET total == attrs["N_MAX_SYSTEM_THREADS"].n
        typed == last'.typed
        Refusal(i) == typed[i].text # "" /\ ~InRange(typed[i].text, total)
    IN  /\ (Pending("N_BUILD_THREADS") /\ ~Pending("N_BUILD_THREADS")') =>
              /\ last'.op = "get" /\ last'.key = "N_BUILD_THREADS"
              /\ last'.status = "return" /\ typed # <<>>
              /\ attrs'["N_BUILD_THREADS"] = last'.value
              /\ LET line == typed[Len(typed)].text
                 IN  IF line = "" THEN last'.value = PyInt(total)
                     ELSE InRange(line, total)
                            /\ last'.value = PyInt(IntLiteral[line])
              /\ \A i \in 1..(Len(typed) - 1) : Refusal(i)
        /\ (last'.op = "get" /\ last'.key = "N_BUILD_THREADS"
                /\ Pending("N_BUILD_THREADS") /\ last'.status = "raise") =>
              /\ Pending("N_BUILD_THREADS")'
              /\ \A i \in 1..Len(typed) : Refusal(i)
C5_Step ==
    (last'.op = "get" /\ last'.status = "return" /\ Pending(last'.key)) =>
        \A k \in Reached(attrs, last'.key) :
            /\ k \in DOMAIN attrs' /\ ~IsDeferred(attrs'[k])
            /\ Pending(k) =>
                  /\ invoked'[k] = invoked[k] + 1
                  /\ succeeded'[k] = succeeded[k] + 1
                  /\ last'.seen[k] =
                        [i \in 1..Len(ReadsOf(attrs, k)) |->
                            attrs'[ReadsOf(attrs, k)[i]]]
                  /\ \A i \in 1..Len(last'.seen[k]) :
                        ~IsDeferred(last'.seen[k][i])
            /\ Resolved(k) => attrs'[k] = attrs[k] /\ invoked'[k] = invoked[k]
C6_Step ==
    /\ last'.op = "set_value" =>
          /\ attrs'[last'.key] = last'.value
          /\ \A k \in DOMAIN attrs \ {last'.key} : attrs'[k] = attrs[k]
    /\ (last'.op = "get" /\ Resolved(last'.key) /\ succeeded[last'.key] = 0) =>
          /\ last'.status = "return" /\ last'.value = attrs[last'.key]
          /\ last'.called = {} /\ invoked' = invoked
          /\ attrs' = attrs
\* C6: after set_value(key, v) every get(key) returns v, invokes no
\* producer and leaves every field as it was.
C6_SetValueGet == [][C6_Step]_vars
\* C6 witness: a get of a stored value returned it while another field was
\* Pending and stayed unread.
C6_Witness ==
    /\ last.op = "get" /\ last.status = "return"
    /\ Resolved(last.key) /\ succeeded[last.key] = 0
    /\ last.value = attrs[last.key]
    /\ \E k \in Keys : Pending(k) /\ invoked[k] = 0

\* C7 step: a get of a name the instance does not hold raises
\* AttributeError, invokes no producer and changes no field.
C7_Step ==
    (last'.op = "get" /\ last'.key \notin DOMAIN attrs) =>
        /\ last'.status = "raise" /\ last'.exc = "AttributeError"
        /\ last'.called = {} /\ invoked' = invoked /\ succeeded' = succeeded
        /\ attrs' = attrs
\* C7: get of a key that was never registered raises the unknown-field error
\* and leaves every registered field unchanged.
C7_UnknownField == [][C7_Step]_vars
\* C7 witness: a get of an unregistered key raised AttributeError on a config
\* that holds a Pending and a Resolved field.
C7_Witness ==
    /\ last.op = "get" /\ last.status = "raise" /\ last.exc = "AttributeError"
    /\ last.key \notin DOMAIN attrs
    /\ \E k \in Keys : Pending(k)
    /\ \E k \in Keys : Resolved(k)

\* C19: when a get of a Pending field raises, that field stays Pending and
\* every producer that succeeded during the get has its field Resolved; a
\* later get leaves a Resolved field and its memoized value alone and does
\* not invoke its producer again, while it invokes the producer of the
\* Pending field it reads once more; no producer succeeds more than once.
C19_Step ==
    last'.op = "get" =>
        /\ \A k \in Keys :
              /\ Resolved(k) =>
                    /\ attrs'[k] = attrs[k]
                    /\ invoked'[k] = invoked[k]
                    /\ succeeded'[k] = succeeded[k]
              /\ succeeded'[k] > succeeded[k] =>
                    /\ k \in DOMAIN attrs' /\ ~IsDeferred(attrs'[k])
                    /\ succeeded'[k] = 1
        /\ Pending(last'.key) => invoked'[last'.key] = invoked[last'.key] + 1
        /\ (Pending(last'.key) /\ last'.status = "raise") =>
              attrs'[last'.key] = attrs[last'.key]
C19_AtMostOneSuccess == \A k \in Keys : succeeded[k] <= 1
C19_FailureKeepsNestedResolved == []C19_AtMostOneSuccess /\ [][C19_Step]_vars

\* A get has raised after the producer it invoked had resolved a Pending
\* field it reads: that field is Resolved, the field read is still Pending.
C19_Witness ==
    /\ last.op = "get" /\ last.status = "raise" /\ Pending(last.key)
    /\ \E k \in last.called \ {last.key} :
          Resolved(k) /\ succeeded[k] = 1 /\ invoked[k] = 1

\* C20: whenever a get returns normally, the field read is Resolved and the
\* value returned is a concrete value, never a DeferredValueFactory,
\* whatever the producer returned.
C20_GetReturnsConcrete ==
    (last.op = "get" /\ last.status = "return") =>
        /\ Resolved(last.key)
        /\ ~IsDeferred(last.value)

====
